---- MODULE Spec2Model ----
(***************************************************************************)
(* State-machine model of the duplex proxy engines of backend.ai-client:   *)
(*   - gateway WebSocket relay: websocket_handler + WebSocketProxy         *)
(*     (src/src/ai/backend/client/cli/proxy.py)                            *)
(*   - local proxy: ProxyRunner.handle_connection + WSProxy                *)
(*     (src/src/ai/backend/client/cli/app.py)                              *)
(* One behaviour follows one session of one of the two engines ("mode").   *)
(* Every asyncio task is a program counter; one action is the code between *)
(* two suspension points (await) of a task.  What the peers send, when a   *)
(* connect fails and when a task is cancelled is chosen by the environment.*)
(***************************************************************************)
EXTENDS Integers, Sequences, FiniteSets, TLC

\* ---------------------------------------------------------------- bounds
\* payloads the two peers of one session send, both directions counted
\* together: TEXT/BINARY frames, and bytes of the local client
MaxFrames == 2
\* external task cancellations during one session
MaxCancel == 1
\* kernel.execute calls of one exec_loop
MaxExec == 2

\* ------------------------------------------------------------ data types
Payloads == {"p", "q"}
\* aiohttp.WSMsgType.TEXT / BINARY, the two kinds WebSocketProxy relays
Kinds == {"TEXT", "BINARY"}
Frames == [data : Payloads, type : Kinds]
Bytes == {"x", "y"}

Min(a, b) == IF a <= b THEN a ELSE b

IsPrefix(s, t) == Len(s) <= Len(t) /\ SubSeq(t, 1, Len(s)) = s

VARIABLES mode, gw, lp, wh, rc, pr

vars == <<mode, gw, lp, wh, rc, pr>>

\* =============================================== gateway: handler responses
\* BackendAPIError instances: e.status, e.reason, e.data
ApiErrors ==
    { [status |-> 404, reason |-> "Not Found", data |-> "missing"],
      [status |-> 400, reason |-> "Bad Request", data |-> "bad"] }

NoError == [status |-> 0, reason |-> "", data |-> ""]

\* no web.Response has been returned
NoResponse == [status |-> 0, reason |-> "", body |-> ""]

\* the exception classes the handlers' except clauses tell apart
FailureClasses ==
    {"BackendAPIError", "BackendClientError", "CancelledError", "Exception"}

\* except clauses that answer every other failure as a shutdown
ErrorResponseShutdown(exc, e) ==
    CASE exc = "BackendAPIError" ->
           [status |-> e.status, reason |-> e.reason, body |-> e.data]
      [] OTHER ->
           [status |-> 503, reason |-> "Service Unavailable",
            body |-> "The proxy is being shut down."]

\* the web.Response the except clauses of web_handler and websocket_handler
\* return for an exception of class exc (e: the BackendAPIError caught)
ErrorResponse(exc, e) ==
    CASE exc = "BackendAPIError" ->
           [status |-> e.status, reason |-> e.reason, body |-> e.data]
      [] exc = "BackendClientError" ->
           [status |-> 502, reason |-> "Bad Gateway",
            body |-> "The proxy target server is inaccessible."]
      [] exc = "CancelledError" ->
           [status |-> 503, reason |-> "Service Unavailable",
            body |-> "The proxy is being shut down."]
      [] OTHER ->
           [status |-> 500, reason |-> "Internal Server Error",
            body |-> "Something has gone wrong."]

\* ===================================================== gateway: initial state
\* websocket_handler has been entered; nothing is connected yet.
GwInit ==
    [ h_pc            |-> "connect",   \* websocket_handler position
      response        |-> "none",      \* what websocket_handler returned
      resp            |-> NoResponse,  \* the web.Response of an except clause
      open_failure    |-> "none",      \* class of the failed connect_websocket()
      open_error      |-> NoError,     \* the BackendAPIError it raised
      responses       |-> 0,           \* responses websocket_handler returned
      px_pc           |-> "none",      \* task running proxy() -> upstream()
      ds_pc           |-> "none",      \* task running downstream()
      ds_exc          |-> FALSE,       \* downstream() is unwinding an exception
      buf_pc          |-> "none",      \* upstream_buffer_task
      up_opened       |-> FALSE,       \* connect_websocket() has returned up_conn
      down_prepared   |-> FALSE,       \* down_conn.prepare() has run
      up_closed       |-> FALSE,       \* up_conn.closed
      down_closed     |-> FALSE,       \* down_conn.closed
      down_close_code |-> "none",      \* error close code sent on down_conn
      upstream_buffer |-> <<>>,        \* asyncio.Queue of (data, type)
      enqueued        |-> <<>>,        \* history: every frame put on the queue
      up_sent         |-> <<>>,        \* history: frames sent on up_conn
      up_received     |-> <<>>,        \* history: TEXT/BINARY received from up_conn
      down_sent       |-> <<>>,        \* history: frames sent on down_conn
      first_end       |-> "none",      \* which direction's read loop ended first
      proxy_cancelled |-> FALSE,       \* the task running proxy() was cancelled in its relay loop
      handler_close_calls |-> 0,       \* down_conn.close(code=...) calls of downstream()
      down_close_calls |-> 0,          \* calls of down_conn.close() by the relay
      up_close_calls  |-> 0,           \* calls of up_conn.close() by the relay
      cancels         |-> 0 ]

\* an idle record for the engine a behaviour does not run
GwIdle == [GwInit EXCEPT !.h_pc = "idle"]


\* first_end after the read loop of direction `side` has ended
MarkEnd(g, side) == IF g.first_end = "none" THEN side ELSE g.first_end

\* a queue that hands out the newest frame first
QueuePutFront(q, item) == <<item>> \o q

\* upstream_buffer.put((msg, tp)) : asyncio.Queue is FIFO
QueuePut(q, item) == Append(q, item)

\* what consume_upstream_buffer puts on up_conn for a dequeued (data, tp):
\* send_bytes for BINARY, send_str for TEXT
UpConnSend(item) ==
    IF item.type = "BINARY" THEN [data |-> item.data, type |-> "BINARY"]
    ELSE [data |-> item.data, type |-> "TEXT"]

\* a relay that sends every message with send_str
DownConnSendAllText(msg) == [data |-> msg.data, type |-> "TEXT"]

\* what downstream() puts on down_conn for a message of up_conn:
\* send_str for TEXT, send_bytes for BINARY
DownConnSend(msg) ==
    IF msg.type = "TEXT" THEN [data |-> msg.data, type |-> "TEXT"]
    ELSE [data |-> msg.data, type |-> "BINARY"]

\* ===================================================== websocket_handler
\* up_conn = await api_rqst.connect_websocket(), with the handler's except
\* clauses for a failed or cancelled connect.
WsHandlerConnect ==
    /\ mode = "gateway"
    /\ gw.h_pc = "connect"
    /\ \E outcome \in {"ok"} \cup FailureClasses, e \in ApiErrors \cup {NoError} :
         /\ outcome = "CancelledError" => gw.cancels < MaxCancel
         /\ (outcome = "BackendAPIError") <=> (e \in ApiErrors)
         /\ gw' = IF outcome = "ok"
                  THEN [gw EXCEPT !.h_pc = "prepare", !.up_opened = TRUE]
                  ELSE [gw EXCEPT
                          !.h_pc = "responded",
                          !.open_failure = outcome,
                          !.open_error = e,
                          !.resp = ErrorResponse(outcome, e),
                          !.responses = @ + 1,
                          !.cancels = IF outcome = "CancelledError" THEN @ + 1 ELSE @,
                          !.response =
                              CASE outcome = "BackendAPIError"    -> "passthrough"
                                [] outcome = "BackendClientError" -> "502"
                                [] outcome = "CancelledError"     -> "503"
                                [] OTHER                          -> "500"]
    /\ UNCHANGED <<mode, lp, wh, rc, pr>>

\* down_conn.prepare(request); WebSocketProxy(up_conn, down_conn); proxy() up
\* to its first suspension: ensure_future(self.downstream()) and the start of
\* upstream().  A failing prepare() is answered by `except Exception`.
WsHandlerPrepare ==
    /\ mode = "gateway"
    /\ gw.h_pc = "prepare"
    /\ \E ok \in BOOLEAN :
         gw' = IF ok
               THEN [gw EXCEPT !.h_pc = "proxy", !.down_prepared = TRUE,
                               !.px_pc = "recv", !.ds_pc = "scheduled"]
               ELSE [gw EXCEPT !.h_pc = "responded", !.response = "500",
                               !.resp = ErrorResponse("Exception", NoError),
                               !.responses = @ + 1]
    /\ UNCHANGED <<mode, lp, wh, rc, pr>>

\* ===================================================== WebSocketProxy.upstream
\* async for msg in self.down_conn: a TEXT or BINARY message is handed to
\* send(), which puts (data, type) on upstream_buffer.
UpstreamRecvFrame ==
    /\ mode = "gateway"
    /\ gw.px_pc = "recv"
    /\ ~gw.down_closed
    /\ Len(gw.enqueued) + Len(gw.up_received) < MaxFrames
    /\ \E msg \in Frames :
         gw' = [gw EXCEPT
                  !.upstream_buffer = QueuePut(@, [data |-> msg.data, type |-> msg.type]),
                  !.enqueued = Append(@, [data |-> msg.data, type |-> msg.type])]
    /\ UNCHANGED <<mode, lp, wh, rc, pr>>

\* async for msg in self.down_conn ends: an ERROR message (break), a CLOSE
\* message (break) or the end of the message stream.  aiohttp may already
\* have closed down_conn when it hands out ERROR/CLOSE (autoclose).
UpstreamRecvEnd ==
    /\ mode = "gateway"
    /\ gw.px_pc = "recv"
    /\ ~gw.down_closed
    /\ \E kind \in {"ERROR", "CLOSE", "EOS"}, autoclose \in BOOLEAN :
         gw' = [gw EXCEPT !.px_pc = "close_downstream",
                          !.down_closed = autoclose,
                          !.first_end = MarkEnd(gw, "down")]
    /\ UNCHANGED <<mode, lp, wh, rc, pr>>

\* down_conn was closed by downstream() (close(code=...)) while upstream() was
\* waiting for a message: the iteration ends.
UpstreamSeesClosed ==
    /\ mode = "gateway"
    /\ gw.px_pc = "recv"
    /\ gw.down_closed
    /\ gw' = [gw EXCEPT !.px_pc = "close_downstream"]
    /\ UNCHANGED <<mode, lp, wh, rc, pr>>

\* the task running proxy() is cancelled while upstream() waits for a message:
\* except asyncio.CancelledError: pass, then the finally clause.
UpstreamCancelled ==
    /\ mode = "gateway"
    /\ gw.px_pc = "recv"
    /\ gw.cancels < MaxCancel
    /\ gw' = [gw EXCEPT !.px_pc = "close_downstream",
                        !.cancels = @ + 1,
                        !.proxy_cancelled = TRUE,
                        !.first_end = MarkEnd(gw, "down")]
    /\ UNCHANGED <<mode, lp, wh, rc, pr>>

\* close_downstream() without its test of down_conn.closed
CloseDownstreamUnguarded ==
    /\ mode = "gateway"
    /\ gw.px_pc = "close_downstream"
    /\ gw' = [gw EXCEPT !.px_pc = "returned",
                        !.down_closed = TRUE,
                        !.down_close_calls = @ + 1,
                        !.h_pc = "responded",
                        !.responses = @ + 1,
                        !.response = "down_conn"]
    /\ UNCHANGED <<mode, lp, wh, rc, pr>>

\* finally: await self.close_downstream(), which calls down_conn.close() only
\* if down_conn is not closed; then upstream() and proxy() return
\* and websocket_handler returns down_conn.
CloseDownstream ==
    /\ mode = "gateway"
    /\ gw.px_pc = "close_downstream"
    /\ gw' = [gw EXCEPT !.px_pc = "returned",
                        !.down_closed = TRUE,
                        !.down_close_calls = IF gw.down_closed THEN @ ELSE @ + 1,
                        !.h_pc = "responded",
                        !.responses = @ + 1,
                        !.response = "down_conn"]
    /\ UNCHANGED <<mode, lp, wh, rc, pr>>

\* the task is cancelled while close_downstream() awaits down_conn.close():
\* CancelledError leaves the finally clause, upstream() and proxy(), and
\* websocket_handler answers it with 503.
CloseDownstreamCancelled ==
    /\ mode = "gateway"
    /\ gw.px_pc = "close_downstream"
    /\ ~gw.down_closed
    /\ gw.cancels < MaxCancel
    /\ gw' = [gw EXCEPT !.px_pc = "cancelled",
                        !.down_closed = TRUE,
                        !.down_close_calls = @ + 1,
                        !.cancels = @ + 1,
                        !.h_pc = "responded",
                        !.resp = ErrorResponse("CancelledError", NoError),
                        !.responses = @ + 1,
                        !.response = "503"]
    /\ UNCHANGED <<mode, lp, wh, rc, pr>>


\* ===================================================== WebSocketProxy.downstream
\* first step of the task made by ensure_future(self.downstream()):
\* upstream_buffer_task = ensure_future(self.consume_upstream_buffer()).
DownstreamStart ==
    /\ mode = "gateway"
    /\ gw.ds_pc = "scheduled"
    /\ gw' = [gw EXCEPT !.ds_pc = "recv", !.buf_pc = "get"]
    /\ UNCHANGED <<mode, lp, wh, rc, pr>>

\* async for msg in self.up_conn: a TEXT message goes to down_conn.send_str,
\* a BINARY one to down_conn.send_bytes.  The send reaches the peer ("sent"),
\* raises (a closed or reset connection: the exception leaves the loop and
\* the finally clause runs) or, on a closed connection, is dropped with a
\* warning by the library ("dropped").
DownstreamRecvFrame ==
    /\ mode = "gateway"
    /\ gw.ds_pc = "recv"
    /\ Len(gw.enqueued) + Len(gw.up_received) < MaxFrames
    /\ \E msg \in Frames, outcome \in {"sent", "raised", "dropped"} :
         /\ outcome = "sent" => ~gw.down_closed
         /\ outcome = "dropped" => gw.down_closed
         /\ gw' = [gw EXCEPT
                     !.up_received = Append(@, msg),
                     !.down_sent = IF outcome = "sent"
                                   THEN Append(@, DownConnSend(msg)) ELSE @,
                     !.ds_exc = (outcome = "raised"),
                     !.ds_pc = IF outcome = "raised" THEN "close_upstream" ELSE @]
    /\ UNCHANGED <<mode, lp, wh, rc, pr>>

\* async for msg in self.up_conn ends: a CLOSED message (break), an ERROR
\* message (break) or the end of the message stream.  aiohttp may already
\* have closed up_conn when the iteration ends (autoclose).
DownstreamRecvEnd ==
    /\ mode = "gateway"
    /\ gw.ds_pc = "recv"
    /\ \E kind \in {"CLOSED", "ERROR", "EOS"}, autoclose \in BOOLEAN :
         gw' = [gw EXCEPT !.ds_pc = "close_upstream",
                          !.up_closed = autoclose,
                          !.first_end = MarkEnd(gw, "up")]
    /\ UNCHANGED <<mode, lp, wh, rc, pr>>

\* the iteration of up_conn raises: ClientConnectorError closes down_conn with
\* code 503, ClientResponseError with code e.status; any other exception
\* only runs the finally clause.
DownstreamRecvRaises ==
    /\ mode = "gateway"
    /\ gw.ds_pc = "recv"
    /\ \E exc \in {"ClientConnectorError", "ClientResponseError", "Exception"} :
         gw' = IF exc = "Exception"
               THEN [gw EXCEPT !.ds_pc = "close_upstream", !.ds_exc = TRUE]
               ELSE [gw EXCEPT
                       !.ds_pc = "close_upstream",
                       !.down_closed = TRUE,
                       !.down_close_calls = @ + 1,
                       !.handler_close_calls = @ + 1,
                       !.down_close_code =
                           IF gw.down_closed THEN @
                           ELSE IF exc = "ClientConnectorError" THEN "503"
                           ELSE "e.status"]
    /\ UNCHANGED <<mode, lp, wh, rc, pr>>

\* the detached downstream() task is cancelled from outside (event loop
\* teardown).  Cancelled before its first step the coroutine never runs;
\* cancelled in the loop: except asyncio.CancelledError: pass, then finally.
DownstreamCancelled ==
    /\ mode = "gateway"
    /\ gw.ds_pc \in {"scheduled", "recv"}
    /\ gw.cancels < MaxCancel
    /\ gw' = [gw EXCEPT
                !.ds_pc = IF gw.ds_pc = "scheduled" THEN "done" ELSE "close_upstream",
                !.cancels = @ + 1]
    /\ UNCHANGED <<mode, lp, wh, rc, pr>>

\* close_upstream(), first half: if not upstream_buffer_task.done(): cancel it
\* and await it (consume_upstream_buffer swallows the CancelledError and ends).
CloseUpstreamCancelTask ==
    /\ mode = "gateway"
    /\ gw.ds_pc = "close_upstream"
    /\ gw' = [gw EXCEPT !.ds_pc = "close_up_conn",
                        !.buf_pc = IF @ = "get" THEN "done" ELSE @]
    /\ UNCHANGED <<mode, lp, wh, rc, pr>>

\* close_upstream(), second half: if not up_conn.closed: await up_conn.close();
\* then downstream() ends, with the exception it was unwinding if any.
CloseUpstreamCloseConn ==
    /\ mode = "gateway"
    /\ gw.ds_pc = "close_up_conn"
    /\ gw' = [gw EXCEPT !.ds_pc = IF gw.ds_exc THEN "failed" ELSE "done",
                        !.up_closed = TRUE,
                        !.up_close_calls = IF gw.up_closed THEN @ ELSE @ + 1]
    /\ UNCHANGED <<mode, lp, wh, rc, pr>>

\* ===================================================== consume_upstream_buffer
\* data, tp = await self.upstream_buffer.get(); if not self.up_conn.closed:
\* send it by type.  A send that raises ends the task with that exception.
ConsumeUpstreamBuffer ==
    /\ mode = "gateway"
    /\ gw.buf_pc = "get"
    /\ gw.upstream_buffer # <<>>
    /\ \E ok \in BOOLEAN :
         /\ ~ok => ~gw.up_closed
         /\ gw' = [gw EXCEPT
                     !.upstream_buffer = Tail(@),
                     !.up_sent = IF ok /\ ~gw.up_closed
                                 THEN Append(@, UpConnSend(Head(gw.upstream_buffer)))
                                 ELSE @,
                     !.buf_pc = IF ok THEN @ ELSE "failed"]
    /\ UNCHANGED <<mode, lp, wh, rc, pr>>

GwNext ==
    \/ WsHandlerConnect
    \/ WsHandlerPrepare
    \/ UpstreamRecvFrame
    \/ UpstreamRecvEnd
    \/ UpstreamSeesClosed
    \/ UpstreamCancelled
    \/ CloseDownstream
    \/ CloseDownstreamCancelled
    \/ DownstreamStart
    \/ DownstreamRecvFrame
    \/ DownstreamRecvEnd
    \/ DownstreamRecvRaises
    \/ DownstreamCancelled
    \/ CloseUpstreamCancelTask
    \/ CloseUpstreamCloseConn
    \/ ConsumeUpstreamBuffer

\* the steps the event loop takes by itself once they are ready; what the
\* peers send, failures and cancellations are never forced
GwFair ==
    /\ WF_vars(UpstreamSeesClosed)
    /\ WF_vars(CloseDownstream)
    /\ WF_vars(DownstreamStart)
    /\ WF_vars(CloseUpstreamCancelTask)
    /\ WF_vars(CloseUpstreamCloseConn)
    /\ WF_vars(ConsumeUpstreamBuffer)

\* ============================================================ local proxy
\* WSProxy.BUFFER_SIZE
BUFFER_SIZE == 8192

\* the bytes of a sequence of chunks, in order
RECURSIVE Flatten(_)
Flatten(chunks) ==
    IF chunks = <<>> THEN <<>> ELSE Head(chunks) \o Flatten(Tail(chunks))

\* a local connection has been accepted and handle_connection entered:
\* WSProxy(...) is constructed, run() has not yet connected.
LpInit ==
    [ hc_pc         |-> "run",     \* ProxyRunner.handle_connection position
      hc_result     |-> "none",    \* how handle_connection took run()'s end
      run_pc        |-> "connect", \* WSProxy.run position
      run_exc       |-> "none",    \* exception run() is unwinding
      dt_pc         |-> "none",    \* self.down_task, the downstream() closure
      dt_exc        |-> FALSE,     \* downstream() is unwinding an exception
      ws_opened     |-> FALSE,     \* connect_websocket() has yielded ws
      ws_closed     |-> FALSE,     \* the async with block of ws has been left
      writer_closed |-> FALSE,     \* self.writer.close() has been called
      conn_lost     |-> FALSE,     \* the transport reported connection_lost
      client_closed |-> FALSE,     \* the local client closed its socket
      end_kind      |-> "none",      \* how the iteration over ws ended
      up_ended      |-> FALSE,     \* ws delivered ERROR, CLOSE or its end
      local_in      |-> <<>>,      \* bytes received from the client, not yet read
      client_sent   |-> <<>>,      \* history: bytes the client sent
      bytes_read    |-> <<>>,      \* history: bytes returned by reader.read
      chunk         |-> <<>>,      \* the chunk run() is sending
      ws_sent       |-> <<>>,      \* history: chunks sent by ws.send_bytes
      ws_binary     |-> <<>>,      \* history: BINARY payloads received from ws
      local_written |-> <<>>,      \* history: what was written to self.writer
      first_end     |-> "none",    \* which direction's read loop ended first
      loop_exit     |-> "none",    \* how run() left its read loop
      run_cancelled |-> FALSE,     \* the task running run() was cancelled in the relay
      cancels       |-> 0 ]

LpIdle == [LpInit EXCEPT !.hc_pc = "idle", !.run_pc = "idle"]

\* self.down_task.done()
DownTaskDone(l) == l.dt_pc \in {"done", "failed", "cancelled"}

\* the finally clause of run() up to its first suspension:
\* if not self.down_task.done(): await self.down_task
AfterLoop(l) == IF DownTaskDone(l) THEN "exit_ws" ELSE "await_down"

\* chunk = await self.reader.read(self.BUFFER_SIZE): at most BUFFER_SIZE of
\* the buffered bytes
ReadChunk(buffered) == SubSeq(buffered, 1, Min(Len(buffered), BUFFER_SIZE))

\* what write_error puts on the local socket: one 503 block
ErrorBlock == "503"

\* a send whose chunk never reaches ws
WsSendBytesLost(sent, chunk) == sent

\* await ws.send_bytes(chunk) returning: the chunk is the next frame on ws
WsSendBytes(sent, chunk) == Append(sent, chunk)

\* how the down task ends after its finally clause
DownTaskEnd(exc) == IF exc THEN "failed" ELSE "done"

\* a finally clause that does not close the writer
DownTaskFinallyNoClose(l, exc, has_wait_closed) ==
    [l EXCEPT !.dt_exc = exc, !.dt_pc = DownTaskEnd(exc)]

\* the finally clause of downstream(), entered with or without an exception:
\* self.writer.close(), then wait_closed() where the writer has it
DownTaskFinally(l, exc, has_wait_closed) ==
    [l EXCEPT !.dt_exc = exc,
              !.writer_closed = TRUE,
              !.dt_pc = IF has_wait_closed THEN "wait_closed" ELSE DownTaskEnd(exc)]

\* ------------------------------------------------------------ the local client
ClientSend ==
    /\ mode = "local"
    /\ lp.hc_pc = "run"
    /\ ~lp.client_closed
    /\ ~lp.writer_closed
    /\ Len(lp.client_sent) + Len(lp.ws_binary) < MaxFrames
    /\ \E b \in Bytes :
         lp' = [lp EXCEPT !.local_in = Append(@, b),
                          !.client_sent = Append(@, b)]
    /\ UNCHANGED <<mode, gw, wh, rc, pr>>

ClientClose ==
    /\ mode = "local"
    /\ lp.hc_pc = "run"
    /\ ~lp.client_closed
    /\ ~lp.writer_closed
    /\ lp' = [lp EXCEPT !.client_closed = TRUE]
    /\ UNCHANGED <<mode, gw, wh, rc, pr>>

\* after self.writer.close() the transport, which self.reader shares, stops
\* reading and reports connection_lost once its write buffer is flushed (the
\* local socket is taken to accept what was written): the reader gets EOF
\* and wait_closed() completes.
TransportConnectionLost ==
    /\ mode = "local"
    /\ lp.writer_closed
    /\ ~lp.conn_lost
    /\ lp' = [lp EXCEPT !.conn_lost = TRUE]
    /\ UNCHANGED <<mode, gw, wh, rc, pr>>

\* ------------------------------------------------------------ WSProxy.run
\* handle_connection without its except Exception clause
HcResultReraise(exc) ==
    CASE exc = "none"           -> "returned"
      [] exc = "CancelledError" -> "cancelled"
      [] OTHER                  -> "raised"

\* how handle_connection takes the end of run(): a return, a CancelledError
\* (pass) or any other exception (print_error)
HcResult(exc) ==
    CASE exc = "none"           -> "returned"
      [] exc = "CancelledError" -> "cancelled"
      [] OTHER                  -> "error_printed"

\* async with api_rqst.connect_websocket() as ws: on success the down task is
\* created (ensure_future(downstream())) and the read loop is entered; a
\* failed or cancelled connect leaves run() with the exception, which
\* handle_connection takes.
RunConnect ==
    /\ mode = "local"
    /\ lp.run_pc = "connect"
    /\ \E outcome \in {"ok", "Exception", "CancelledError"} :
         /\ outcome = "CancelledError" => lp.cancels < MaxCancel
         /\ lp' = IF outcome = "ok"
                  THEN [lp EXCEPT !.run_pc = "read", !.ws_opened = TRUE,
                                  !.dt_pc = "recv"]
                  ELSE [lp EXCEPT !.run_pc = "raised", !.run_exc = outcome,
                                  !.hc_pc = "done",
                                  !.hc_result = HcResult(outcome),
                                  !.cancels = IF outcome = "CancelledError"
                                              THEN @ + 1 ELSE @]
    /\ UNCHANGED <<mode, gw, wh, rc, pr>>

\* chunk = await self.reader.read(...) with bytes buffered
RunRead ==
    /\ mode = "local"
    /\ lp.run_pc = "read"
    /\ lp.local_in # <<>>
    /\ LET c == ReadChunk(lp.local_in) IN
         lp' = [lp EXCEPT !.run_pc = "send",
                          !.chunk = c,
                          !.bytes_read = @ \o c,
                          !.local_in = SubSeq(@, Len(c) + 1, Len(@))]
    /\ UNCHANGED <<mode, gw, wh, rc, pr>>

\* reader.read returns b'' (the client closed, or the transport was closed by
\* writer.close()): break, then the finally clause.
RunReadEof ==
    /\ mode = "local"
    /\ lp.run_pc = "read"
    /\ lp.local_in = <<>>
    /\ lp.client_closed \/ lp.conn_lost
    /\ lp' = [lp EXCEPT !.run_pc = AfterLoop(lp),
                        !.loop_exit = "eof",
                        !.first_end = MarkEnd(lp, "down")]
    /\ UNCHANGED <<mode, gw, wh, rc, pr>>

\* await ws.send_bytes(chunk): it returns, or raises (a closed or reset
\* upstream), which leaves the loop through the finally clause.
RunSend ==
    /\ mode = "local"
    /\ lp.run_pc = "send"
    /\ \E outcome \in {"sent", "raised"} :
         lp' = IF outcome = "sent"
               THEN [lp EXCEPT !.run_pc = "read",
                               !.ws_sent = WsSendBytes(@, lp.chunk),
                               !.chunk = <<>>]
               ELSE [lp EXCEPT !.run_pc = AfterLoop(lp),
                               !.loop_exit = "exception",
                               !.run_exc = "Exception",
                               !.chunk = <<>>]
    /\ UNCHANGED <<mode, gw, wh, rc, pr>>

\* the task running run() is cancelled in the read loop:
\* except asyncio.CancelledError: pass, then the finally clause.
RunCancelled ==
    /\ mode = "local"
    /\ lp.run_pc \in {"read", "send"}
    /\ lp.cancels < MaxCancel
    /\ lp' = [lp EXCEPT !.run_pc = AfterLoop(lp),
                        !.loop_exit = "cancelled",
                        !.chunk = <<>>,
                        !.cancels = @ + 1,
                        !.run_cancelled = TRUE]
    /\ UNCHANGED <<mode, gw, wh, rc, pr>>

\* await self.down_task completes: self.down_task = None, or the task's
\* exception is raised in run().
RunAwaitDown ==
    /\ mode = "local"
    /\ lp.run_pc = "await_down"
    /\ DownTaskDone(lp)
    /\ lp' = [lp EXCEPT !.run_pc = "exit_ws",
                        !.run_exc = CASE lp.dt_pc = "failed"    -> "Exception"
                                      [] lp.dt_pc = "cancelled" -> "CancelledError"
                                      [] OTHER                  -> @]
    /\ UNCHANGED <<mode, gw, wh, rc, pr>>

\* the task is cancelled while it awaits self.down_task: the cancellation is
\* passed on to the down task.  In its loop: except CancelledError: pass and
\* the finally clause closes the writer; in wait_closed(): the task ends
\* cancelled.
RunAwaitCancelled ==
    /\ mode = "local"
    /\ lp.run_pc = "await_down"
    /\ lp.dt_pc \in {"recv", "wait_closed"}
    /\ lp.cancels < MaxCancel
    /\ \E has_wait_closed \in BOOLEAN :
         /\ lp.dt_pc = "wait_closed" => has_wait_closed
         /\ lp' = IF lp.dt_pc = "recv"
               THEN DownTaskFinally([lp EXCEPT !.cancels = @ + 1,
                                               !.run_cancelled = TRUE],
                                    FALSE, has_wait_closed)
               ELSE [lp EXCEPT !.dt_pc = "cancelled",
                               !.cancels = @ + 1,
                               !.run_cancelled = TRUE]
    /\ UNCHANGED <<mode, gw, wh, rc, pr>>

\* the async with block is left: ws is closed, run() ends and
\* handle_connection takes its return or exception.
RunExitWs ==
    /\ mode = "local"
    /\ lp.run_pc = "exit_ws"
    /\ lp' = [lp EXCEPT !.run_pc = IF lp.run_exc = "none" THEN "returned"
                                   ELSE "raised",
                        !.ws_closed = TRUE,
                        !.hc_pc = "done",
                        !.hc_result = HcResult(lp.run_exc)]
    /\ UNCHANGED <<mode, gw, wh, rc, pr>>

\* ------------------------------------------------------------ run.downstream
\* the messages of ws after which downstream() calls write_error: ERROR, and
\* CLOSE with a code other than WSCloseCode.OK
NeedsWriteError(kind) == kind \in {"ERROR", "CLOSE_ABNORMAL"}

\* async for msg in ws: a BINARY message is written to the local socket
\* (writer.write, drain).  A write that raises leaves the loop and the
\* finally clause closes the writer.  (Messages of other types change
\* nothing and are not modelled.)
DownTaskRecvBinary ==
    /\ mode = "local"
    /\ lp.dt_pc = "recv"
    /\ Len(lp.client_sent) + Len(lp.ws_binary) < MaxFrames
    /\ \E data \in Payloads, outcome \in {"written", "raised"},
          has_wait_closed \in BOOLEAN :
         /\ outcome = "written" => has_wait_closed
         /\ lp' = IF outcome = "written"
                  THEN [lp EXCEPT !.ws_binary = Append(@, data),
                                  !.local_written = Append(@, data)]
                  ELSE DownTaskFinally([lp EXCEPT !.ws_binary = Append(@, data)],
                                       TRUE, has_wait_closed)
    /\ UNCHANGED <<mode, gw, wh, rc, pr>>

\* async for msg in ws ends: ERROR (write_error, break), CLOSE (write_error
\* unless the code is OK, break) or the end of the stream; then the finally
\* clause: self.writer.close() and, where the writer has it, wait_closed().
\* write_error decodes msg.data and writes one 503 block, or raises when
\* msg.data does not decode or the write fails.  The data of a CLOSE message
\* is the close code that line 43 compares with WSCloseCode.OK: a number,
\* which has no decode().
DownTaskRecvEnd ==
    /\ mode = "local"
    /\ lp.dt_pc = "recv"
    /\ \E kind \in {"ERROR", "CLOSE_OK", "CLOSE_ABNORMAL", "EOS"},
          write_ok \in BOOLEAN, has_wait_closed \in BOOLEAN :
         /\ ~NeedsWriteError(kind) => write_ok
         /\ kind = "CLOSE_ABNORMAL" => ~write_ok
         /\ lp' = DownTaskFinally(
                     [lp EXCEPT
                        !.up_ended = TRUE,
                        !.end_kind = kind,
                        !.first_end = MarkEnd(lp, "up"),
                        !.local_written = IF NeedsWriteError(kind) /\ write_ok
                                          THEN Append(@, ErrorBlock) ELSE @],
                     ~write_ok, has_wait_closed)
    /\ UNCHANGED <<mode, gw, wh, rc, pr>>

\* await self.writer.wait_closed() completes once the transport is lost
DownTaskWaitClosed ==
    /\ mode = "local"
    /\ lp.dt_pc = "wait_closed"
    /\ lp.conn_lost
    /\ lp' = [lp EXCEPT !.dt_pc = DownTaskEnd(lp.dt_exc)]
    /\ UNCHANGED <<mode, gw, wh, rc, pr>>

LpNext ==
    \/ ClientSend
    \/ ClientClose
    \/ TransportConnectionLost
    \/ RunConnect
    \/ RunRead
    \/ RunReadEof
    \/ RunSend
    \/ RunCancelled
    \/ RunAwaitDown
    \/ RunAwaitCancelled
    \/ RunExitWs
    \/ DownTaskRecvBinary
    \/ DownTaskRecvEnd
    \/ DownTaskWaitClosed

\* the steps the event loop takes by itself once they are ready
LpFair ==
    /\ WF_vars(TransportConnectionLost)
    /\ WF_vars(RunRead)
    /\ WF_vars(RunReadEof)
    /\ WF_vars(RunSend)
    /\ WF_vars(RunAwaitDown)
    /\ WF_vars(RunExitWs)
    /\ WF_vars(DownTaskWaitClosed)

\* ============================================================= web_handler
\* upstream statuses of a plain-relay call
UpStatuses == {200, 404}

\* web_handler has been entered; the upstream call is not yet open.
WhInit ==
    [ pc           |-> "fetch",     \* web_handler position
      open_failure |-> "none",      \* class of the failed api_rqst.fetch()
      open_error   |-> NoError,     \* the BackendAPIError it raised
      up_status    |-> 0,           \* up_resp.status
      prepared     |-> FALSE,       \* down_resp.prepare(request) has run
      down_status  |-> 0,           \* status sent to the caller by prepare()
      chunks_read  |-> <<>>,        \* history: chunks returned by up_resp.aread
      chunks_written |-> <<>>,      \* history: chunks given to down_resp.write
      returned     |-> "none",      \* the object web_handler returned
      resp         |-> NoResponse,  \* the web.Response of an except clause
      responses    |-> 0,           \* responses begun towards the caller
      cancels      |-> 0 ]

WhIdle == [WhInit EXCEPT !.pc = "idle"]

\* an except clause of web_handler returns its web.Response
WebExcept(w, exc, e) ==
    [w EXCEPT !.pc = "responded",
              !.returned = "error_response",
              !.resp = ErrorResponse(exc, e),
              !.responses = @ + 1,
              !.cancels = IF exc = "CancelledError" THEN @ + 1 ELSE @]

\* async with api_rqst.fetch() as up_resp: the upstream call opens, or
\* raises into the except clauses.
WebFetch ==
    /\ mode = "web"
    /\ wh.pc = "fetch"
    /\ \E outcome \in {"ok"} \cup FailureClasses, e \in ApiErrors \cup {NoError},
          st \in UpStatuses :
         /\ outcome = "CancelledError" => wh.cancels < MaxCancel
         /\ (outcome = "BackendAPIError") <=> (e \in ApiErrors)
         /\ outcome # "ok" => st = 200
         /\ wh' = IF outcome = "ok"
                  THEN [wh EXCEPT !.pc = "prepare", !.up_status = st]
                  ELSE [WebExcept(wh, outcome, e) EXCEPT
                          !.open_failure = outcome, !.open_error = e]
    /\ UNCHANGED <<mode, gw, lp, rc, pr>>

\* down_resp = web.StreamResponse(); set_status(up_resp.status, ...);
\* await down_resp.prepare(request): status and headers go to the caller,
\* or prepare raises or is cancelled.
WebPrepare ==
    /\ mode = "web"
    /\ wh.pc = "prepare"
    /\ \E outcome \in {"ok", "CancelledError", "Exception"} :
         /\ outcome = "CancelledError" => wh.cancels < MaxCancel
         /\ wh' = IF outcome = "ok"
                  THEN [wh EXCEPT !.pc = "stream", !.prepared = TRUE,
                                  !.down_status = wh.up_status,
                                  !.responses = @ + 1]
                  ELSE WebExcept(wh, outcome, NoError)
    /\ UNCHANGED <<mode, gw, lp, rc, pr>>

\* chunk = await up_resp.aread(8192); await down_resp.write(chunk)
WebStreamChunk ==
    /\ mode = "web"
    /\ wh.pc = "stream"
    /\ Len(wh.chunks_read) < MaxFrames
    /\ \E chunk \in Payloads :
         wh' = [wh EXCEPT !.chunks_read = Append(@, chunk),
                          !.chunks_written = Append(@, chunk)]
    /\ UNCHANGED <<mode, gw, lp, rc, pr>>

\* aread returns an empty chunk: break; return down_resp
WebStreamEnd ==
    /\ mode = "web"
    /\ wh.pc = "stream"
    /\ wh' = [wh EXCEPT !.pc = "responded", !.returned = "down_resp"]
    /\ UNCHANGED <<mode, gw, lp, rc, pr>>

\* aread or write raises, or the handler is cancelled, while the body is
\* streamed: the same except clauses return a web.Response.
WebStreamFails ==
    /\ mode = "web"
    /\ wh.pc = "stream"
    /\ \E exc \in FailureClasses, e \in ApiErrors \cup {NoError} :
         /\ exc = "CancelledError" => wh.cancels < MaxCancel
         /\ (exc = "BackendAPIError") <=> (e \in ApiErrors)
         /\ wh' = WebExcept(wh, exc, e)
    /\ UNCHANGED <<mode, gw, lp, rc, pr>>

WhNext ==
    \/ WebFetch
    \/ WebPrepare
    \/ WebStreamChunk
    \/ WebStreamEnd
    \/ WebStreamFails

\* ============================================================ the run command
\* values of args.client_token and args.code: absent, empty, or given
ArgValues == {"None", "", "given"}

\* Python truth of an optional string argument
Truthy(arg) == arg \notin {"None", ""}

\* statuses kernel.upload answers with
UploadStatuses == {200, 204, 404, 500}

\* run(args) has been called with these arguments; nothing has run yet.
RcInits ==
    { [ pc                 |-> "get_or_create",
        files              |-> files,      \* args.files is not empty
        code               |-> code,       \* args.code
        client_token       |-> token,      \* args.client_token as given
        attach_to_existing |-> TRUE,
        kernel             |-> FALSE,      \* Kernel.get_or_create returned
        exec_code          |-> "none",     \* code of the running exec_loop
        exec_mode          |-> "none",     \* mode of the running exec_loop
        execute_calls      |-> 0,          \* kernel.execute calls
        upload_calls       |-> 0,          \* kernel.upload calls
        caught             |-> FALSE,      \* the bare except clause ran
        destroy_calls      |-> 0,          \* kernel.destroy calls
        exit               |-> "none" ]    \* how run() was left
      : files \in BOOLEAN, code \in ArgValues, token \in ArgValues }

RcIdle ==
    [ pc |-> "idle", files |-> FALSE, code |-> "None", client_token |-> "None",
      attach_to_existing |-> TRUE, kernel |-> FALSE, exec_code |-> "none",
      exec_mode |-> "none", execute_calls |-> 0, upload_calls |-> 0,
      caught |-> FALSE, destroy_calls |-> 0, exit |-> "none" ]

\* except: print_fail('Execution failed!'); traceback.print_exc()
RunCommandExcept(r) == [r EXCEPT !.pc = "finally", !.caught = TRUE]

\* attach_to_existing = True; if not args.client_token: a token is made and
\* attach_to_existing = False; kernel = Kernel.get_or_create(lang, token),
\* which returns the kernel or raises out of run().
RunCommandGetOrCreate ==
    /\ mode = "run"
    /\ rc.pc = "get_or_create"
    /\ \E ok \in BOOLEAN :
         rc' = [rc EXCEPT
                  !.attach_to_existing = Truthy(rc.client_token),
                  !.kernel = ok,
                  !.pc = IF ok THEN "try" ELSE "exited",
                  !.exit = IF ok THEN @ ELSE "raised"]
    /\ UNCHANGED <<mode, gw, lp, wh, pr>>

\* try: with files and code, or with neither, print and return; with files
\* go on to upload them; with code alone start exec_loop(kernel, code, 'query').
RunCommandCheckArgs ==
    /\ mode = "run"
    /\ rc.pc = "try"
    /\ rc' = IF rc.files
             THEN IF Truthy(rc.code)
                  THEN [rc EXCEPT !.pc = "finally"]
                  ELSE [rc EXCEPT !.pc = "upload"]
             ELSE IF ~Truthy(rc.code)
                  THEN [rc EXCEPT !.pc = "finally"]
                  ELSE [rc EXCEPT !.pc = "exec_loop", !.exec_code = "args.code",
                                  !.exec_mode = "query"]
    /\ UNCHANGED <<mode, gw, lp, wh, pr>>

\* ret = kernel.upload(args.files): it raises, or answers with a status;
\* ret.status // 100 != 2 returns, otherwise exec_loop(kernel, None, 'batch').
RunCommandUpload ==
    /\ mode = "run"
    /\ rc.pc = "upload"
    /\ \/ rc' = RunCommandExcept([rc EXCEPT !.upload_calls = @ + 1])
       \/ \E status \in UploadStatuses :
            rc' = IF status \div 100 # 2
                  THEN [rc EXCEPT !.upload_calls = @ + 1, !.pc = "finally"]
                  ELSE [rc EXCEPT !.upload_calls = @ + 1, !.pc = "exec_loop",
                                  !.exec_code = "None", !.exec_mode = "batch"]
    /\ UNCHANGED <<mode, gw, lp, wh, pr>>

\* one turn of exec_loop: result = kernel.execute(code, mode=mode), the
\* console records are printed; 'finished' leaves the loop, 'waiting-input'
\* reads the next code with getpass()/input(), 'continued' and any other
\* status go round again.  execute, and reading the input, may raise.
ExecLoop ==
    /\ mode = "run"
    /\ rc.pc = "exec_loop"
    /\ \E status \in {"finished", "waiting-input", "continued", "other", "raises"},
          input \in {"read", "raises"} :
         /\ status # "waiting-input" => input = "read"
         /\ status \in {"waiting-input", "continued", "other"} =>
                rc.execute_calls + 1 < MaxExec
         /\ rc' = CASE status = "raises" \/ input = "raises" ->
                         RunCommandExcept([rc EXCEPT !.execute_calls = @ + 1])
                    [] status = "finished" ->
                         [rc EXCEPT !.execute_calls = @ + 1, !.pc = "finally"]
                    [] status = "waiting-input" ->
                         [rc EXCEPT !.execute_calls = @ + 1, !.exec_code = "input"]
                    [] OTHER ->
                         [rc EXCEPT !.execute_calls = @ + 1]
    /\ UNCHANGED <<mode, gw, lp, wh, pr>>

\* the finally clause destroying the kernel whatever attach_to_existing is
RunCommandFinallyAlways ==
    /\ mode = "run"
    /\ rc.pc = "finally"
    /\ \E destroyed \in BOOLEAN :
         rc' = [rc EXCEPT !.destroy_calls = @ + 1,
                          !.pc = "exited",
                          !.exit = IF destroyed THEN "returned" ELSE "raised"]
    /\ UNCHANGED <<mode, gw, lp, wh, pr>>

\* finally: if not attach_to_existing: kernel.destroy() (which may raise);
\* run() is left.
RunCommandFinally ==
    /\ mode = "run"
    /\ rc.pc = "finally"
    /\ \E destroyed \in BOOLEAN :
         /\ rc.attach_to_existing => destroyed
         /\ rc' = [rc EXCEPT
                     !.destroy_calls = IF rc.attach_to_existing THEN @ ELSE @ + 1,
                     !.pc = "exited",
                     !.exit = IF destroyed THEN "returned" ELSE "raised"]
    /\ UNCHANGED <<mode, gw, lp, wh, pr>>

RcNext ==
    \/ RunCommandGetOrCreate
    \/ RunCommandCheckArgs
    \/ RunCommandUpload
    \/ ExecLoop
    \/ RunCommandFinally

\* ============================================================== ProxyRunner
\* the local connections start_server may hand to handle_connection
Sessions == {1, 2}

\* a chunk of data and where it entered: the client of local connection id,
\* or the upstream peer of WebSocket id
Chunk(from, id) == [from |-> from, id |-> id]

\* handle_connection has not been called for this connection
NoSession ==
    [ pc        |-> "none",     \* handle_connection / WSProxy.run position
      hc_result |-> "none",     \* how handle_connection ended
      run_exc   |-> "none",     \* exception run() is unwinding with
      reader    |-> 0,          \* p.reader: the local connection read from
      writer    |-> 0,          \* p.writer: the local connection written to
      ws        |-> 0,          \* the WebSocket made by connect_websocket()
      dt        |-> "none" ]    \* p.down_task

\* ready() has run: the api session exists and the server listens.
PrInit ==
    [ runner_pc     |-> "serving",  \* app() / ProxyRunner.close position
      listening     |-> TRUE,       \* local_server accepts connections
      api_closed    |-> FALSE,      \* api_session.close() has run
      next_ws       |-> 1,          \* WebSockets made so far, plus one
      frames        |-> 0,          \* chunks the peers have produced
      in_flight     |-> {},         \* sessions running when close() began
      sess          |-> [s \in Sessions |-> NoSession],
      local_in      |-> [c \in Sessions |-> <<>>],  \* sent by client c, unread
      local_out     |-> [c \in Sessions |-> <<>>],  \* written to connection c
      writer_closed |-> [c \in Sessions |-> FALSE],
      client_closed |-> [c \in Sessions |-> FALSE],
      ws_out        |-> [w \in Sessions |-> <<>>],  \* sent on WebSocket w
      ws_closed     |-> [w \in Sessions |-> FALSE] ]

PrIdle == [PrInit EXCEPT !.runner_pc = "idle", !.listening = FALSE]

\* start_server accepts local connection s and calls
\* handle_connection(reader, writer): p = WSProxy(api_session, ..., reader,
\* writer); await p.run() begins.
HandleConnection(s) ==
    /\ mode = "runner"
    /\ pr.listening
    /\ pr.sess[s].pc = "none"
    /\ pr' = [pr EXCEPT !.sess[s].pc = "connect",
                        !.sess[s].reader = s,
                        !.sess[s].writer = s]
    /\ UNCHANGED <<mode, gw, lp, wh, rc>>

\* run() with every session entering the first WebSocket made
SessConnectShared(s) ==
    /\ mode = "runner"
    /\ pr.sess[s].pc = "connect"
    /\ \E ok \in BOOLEAN :
         /\ ok => ~pr.api_closed
         /\ pr' = IF ok
                  THEN [pr EXCEPT !.sess[s].pc = "relay",
                                  !.sess[s].ws = 1,
                                  !.sess[s].dt = "recv",
                                  !.next_ws = @ + 1]
                  ELSE [pr EXCEPT !.sess[s].pc = "ended",
                                  !.sess[s].hc_result = HcResult("Exception")]
    /\ UNCHANGED <<mode, gw, lp, wh, rc>>

\* run(): async with api_rqst.connect_websocket() as ws makes a WebSocket of
\* this session's own and starts the down task; a failed connect leaves
\* run() with the exception, which handle_connection takes.
SessConnect(s) ==
    /\ mode = "runner"
    /\ pr.sess[s].pc = "connect"
    /\ \E ok \in BOOLEAN :
         /\ ok => ~pr.api_closed
         /\ pr' = IF ok
                  THEN [pr EXCEPT !.sess[s].pc = "relay",
                                  !.sess[s].ws = pr.next_ws,
                                  !.sess[s].dt = "recv",
                                  !.next_ws = @ + 1]
                  ELSE [pr EXCEPT !.sess[s].pc = "ended",
                                  !.sess[s].hc_result = HcResult("Exception")]
    /\ UNCHANGED <<mode, gw, lp, wh, rc>>

\* the client of local connection c sends a chunk
SessClientSend(c) ==
    /\ mode = "runner"
    /\ pr.sess[c].pc # "none"
    /\ ~pr.client_closed[c]
    /\ pr.frames < MaxFrames
    /\ pr' = [pr EXCEPT !.local_in[c] = Append(@, Chunk("client", c)),
                        !.frames = @ + 1]
    /\ UNCHANGED <<mode, gw, lp, wh, rc>>

\* the client of local connection c closes its end
SessClientClose(c) ==
    /\ mode = "runner"
    /\ pr.sess[c].pc # "none"
    /\ ~pr.client_closed[c]
    /\ pr' = [pr EXCEPT !.client_closed[c] = TRUE]
    /\ UNCHANGED <<mode, gw, lp, wh, rc>>

\* run(): chunk = await self.reader.read(BUFFER_SIZE); await
\* ws.send_bytes(chunk).  A send that raises leaves the loop for the finally
\* clause.
SessRelayUp(s) ==
    /\ mode = "runner"
    /\ pr.sess[s].pc = "relay"
    /\ pr.local_in[pr.sess[s].reader] # <<>>
    /\ \E sent \in BOOLEAN :
         /\ sent => ~pr.ws_closed[pr.sess[s].ws] /\ ~pr.api_closed
         /\ pr' = IF sent
                  THEN [pr EXCEPT
                          !.local_in[pr.sess[s].reader] = Tail(@),
                          !.ws_out[pr.sess[s].ws] =
                              Append(@, Head(pr.local_in[pr.sess[s].reader]))]
                  ELSE [pr EXCEPT
                          !.local_in[pr.sess[s].reader] = Tail(@),
                          !.sess[s].run_exc = "Exception",
                          !.sess[s].pc = "await_down"]
    /\ UNCHANGED <<mode, gw, lp, wh, rc>>

\* run(): reader.read returns b'' (the client closed, or the connection was
\* closed by the down task): break, then the finally clause.
SessReadEof(s) ==
    /\ mode = "runner"
    /\ pr.sess[s].pc = "relay"
    /\ pr.local_in[pr.sess[s].reader] = <<>>
    /\ pr.client_closed[pr.sess[s].reader] \/ pr.writer_closed[pr.sess[s].writer]
    /\ pr' = [pr EXCEPT !.sess[s].pc = "await_down"]
    /\ UNCHANGED <<mode, gw, lp, wh, rc>>

\* downstream(): a BINARY message of this session's WebSocket is written to
\* self.writer
SessRelayDown(s) ==
    /\ mode = "runner"
    /\ pr.sess[s].dt = "recv"
    /\ ~pr.api_closed
    /\ pr.frames < MaxFrames
    /\ pr' = [pr EXCEPT
                !.local_out[pr.sess[s].writer] =
                    Append(@, Chunk("upstream", pr.sess[s].ws)),
                !.frames = @ + 1]
    /\ UNCHANGED <<mode, gw, lp, wh, rc>>

\* downstream(): the iteration over ws ends (the upstream closed, or the api
\* session was closed under it); finally: self.writer.close().
SessDownTaskEnd(s) ==
    /\ mode = "runner"
    /\ pr.sess[s].dt = "recv"
    /\ pr' = [pr EXCEPT !.sess[s].dt = "done",
                        !.writer_closed[pr.sess[s].writer] = TRUE]
    /\ UNCHANGED <<mode, gw, lp, wh, rc>>

\* run(): finally: await self.down_task once it is done; the async with
\* block is left, closing ws; handle_connection takes the outcome of run().
SessAwaitDown(s) ==
    /\ mode = "runner"
    /\ pr.sess[s].pc = "await_down"
    /\ pr.sess[s].dt = "done"
    /\ pr' = [pr EXCEPT !.sess[s].pc = "ended",
                        !.sess[s].hc_result = HcResult(pr.sess[s].run_exc),
                        !.ws_closed[pr.sess[s].ws] = TRUE]
    /\ UNCHANGED <<mode, gw, lp, wh, rc>>

\* app(): KeyboardInterrupt ends run_forever(); runner.close() begins:
\* self.local_server.close()
RunnerClose ==
    /\ mode = "runner"
    /\ pr.runner_pc = "serving"
    /\ pr' = [pr EXCEPT
                !.runner_pc = "wait_closed",
                !.listening = FALSE,
                !.in_flight = {s \in Sessions :
                                 pr.sess[s].pc \notin {"none", "ended"}}]
    /\ UNCHANGED <<mode, gw, lp, wh, rc>>

\* close(): await self.local_server.wait_closed()
RunnerWaitClosed ==
    /\ mode = "runner"
    /\ pr.runner_pc = "wait_closed"
    /\ pr' = [pr EXCEPT !.runner_pc = "api_close"]
    /\ UNCHANGED <<mode, gw, lp, wh, rc>>

\* close(): await self.api_session.close().  Closing the shared session ends
\* all it has opened: WebSocket iterations end, sends and pending connects
\* fail.
RunnerApiClose ==
    /\ mode = "runner"
    /\ pr.runner_pc = "api_close"
    /\ pr' = [pr EXCEPT !.runner_pc = "sleep", !.api_closed = TRUE]
    /\ UNCHANGED <<mode, gw, lp, wh, rc>>

\* close(): await asyncio.sleep(0.1) lets every session step that is ready
\* run; then close() returns and app() closes the loop.
RunnerSleepDone ==
    /\ mode = "runner"
    /\ pr.runner_pc = "sleep"
    /\ \A s \in Sessions : pr.sess[s].pc \in {"none", "ended"}
    /\ pr' = [pr EXCEPT !.runner_pc = "closed"]
    /\ UNCHANGED <<mode, gw, lp, wh, rc>>

PrNext ==
    \/ \E s \in Sessions : HandleConnection(s)
    \/ \E s \in Sessions : SessConnect(s)
    \/ \E s \in Sessions : SessClientSend(s)
    \/ \E s \in Sessions : SessClientClose(s)
    \/ \E s \in Sessions : SessRelayUp(s)
    \/ \E s \in Sessions : SessReadEof(s)
    \/ \E s \in Sessions : SessRelayDown(s)
    \/ \E s \in Sessions : SessDownTaskEnd(s)
    \/ \E s \in Sessions : SessAwaitDown(s)
    \/ RunnerClose
    \/ RunnerWaitClosed
    \/ RunnerApiClose
    \/ RunnerSleepDone

\* ================================================================ the system
Init ==
    /\ mode \in {"gateway", "local", "web", "run", "runner"}
    /\ pr = IF mode = "runner" THEN PrInit ELSE PrIdle
    /\ IF mode = "run" THEN rc \in RcInits ELSE rc = RcIdle
    /\ gw = IF mode = "gateway" THEN GwInit ELSE GwIdle
    /\ lp = IF mode = "local" THEN LpInit ELSE LpIdle
    /\ wh = IF mode = "web" THEN WhInit ELSE WhIdle

Next == GwNext \/ LpNext \/ WhNext \/ RcNext \/ PrNext

Spec == Init /\ [][Next]_vars

\* Spec with the event loop's progress: every ready step of the relay's own
\* tasks is eventually taken; the peers and cancellation are not forced.
FairSpec == Spec /\ GwFair /\ LpFair


\* ==================================================================== claims
\* run() is over: control has left WSProxy.run, by return or by exception,
\* and is back in handle_connection
RunOver == lp.hc_pc = "done"

\* C1: gateway relay: whenever the downstream (client) side terminates first
\* (close, error, end of its stream, cancellation of upstream()), up_conn is
\* eventually closed by the relay, whatever the upstream peer does.
C1_DownFirstClosesUp ==
    (mode = "gateway" /\ gw.first_end = "down") ~> gw.up_closed

\* C2: gateway relay: whenever the upstream side terminates first (end of its
\* stream, CLOSED or ERROR message), down_conn is eventually closed by the
\* relay, whatever the downstream client does.
C2_UpFirstClosesDown ==
    (mode = "gateway" /\ gw.first_end = "up") ~> gw.down_closed

\* C3: local proxy: after the local client closed its socket and reader.read
\* returned an empty chunk, the upstream WebSocket is eventually closed and
\* run() is over, whatever the upstream peer does.
C3_LocalEofClosesUpstream ==
    (mode = "local" /\ lp.client_closed /\ lp.loop_exit = "eof")
        ~> (lp.ws_closed /\ RunOver)

\* C4: local proxy: once the upstream WebSocket terminated (close, error or
\* end of stream), eventually the local writer is closed, the read loop has
\* stopped, the WebSocket context is left and run() is over (it returned, or
\* it re-raised into handle_connection the exception of a failed write_error
\* or send), whatever the local client does.
C4_UpstreamEndClosesLocal ==
    (mode = "local" /\ lp.up_ended)
        ~> (lp.writer_closed /\ lp.loop_exit # "none" /\ lp.ws_closed /\ RunOver)

\* the upstream ended first, the client neither sent nor closed, and the
\* session is fully closed
C4_Witness ==
    /\ mode = "local" /\ lp.up_ended /\ lp.first_end = "up"
    /\ lp.client_sent = <<>> /\ ~lp.client_closed
    /\ lp.writer_closed /\ lp.loop_exit = "eof" /\ lp.ws_closed /\ RunOver

\* C5: the relay's run operation returns only with both directions closed:
\* when proxy() has returned, downstream() and the queue consumer have
\* finished and up_conn and down_conn are closed; when run() has returned
\* normally, the down task has finished, the writer is closed and the
\* upstream WebSocket is closed.
C5_ReturnMeansBothClosed ==
    /\ (mode = "gateway" /\ gw.px_pc = "returned") =>
          /\ gw.ds_pc \in {"done", "failed"}
          /\ gw.buf_pc \in {"done", "failed"}
          /\ gw.up_closed
          /\ gw.down_closed
    /\ (mode = "local" /\ lp.run_pc = "returned") =>
          /\ DownTaskDone(lp)
          /\ lp.writer_closed
          /\ lp.ws_closed

\* C6: cancelling a session mid-transfer eventually closes both connections
\* of the session, and the cancellation puts no error payload (503 block,
\* error close code, error response) on either peer.
C6_CancelClosesBothSilently ==
    /\ (mode = "gateway" /\ gw.proxy_cancelled) ~> (gw.up_closed /\ gw.down_closed)
    /\ (mode = "local" /\ lp.run_cancelled) ~> (lp.ws_closed /\ lp.writer_closed)
    /\ [](mode = "gateway" /\ gw.proxy_cancelled
            => gw.response \notin {"502", "503", "500", "passthrough"})

\* C7: local proxy: the bytes sent on the upstream WebSocket are at every
\* moment a prefix of the bytes read from the local socket, and are equal to
\* them once the read loop has ended on a local EOF.
C7_UploadBytesInOrder ==
    mode = "local" =>
        /\ IsPrefix(Flatten(lp.ws_sent), lp.bytes_read)
        /\ lp.loop_exit = "eof" => Flatten(lp.ws_sent) = lp.bytes_read

\* two different bytes were read in two chunks, both were sent, then EOF
C7_Witness ==
    /\ mode = "local" /\ lp.loop_exit = "eof" /\ lp.client_closed
    /\ Len(lp.ws_sent) = 2 /\ Len(lp.bytes_read) = 2
    /\ lp.bytes_read[1] # lp.bytes_read[2]
    /\ RunOver

\* C8: gateway relay: the (payload, kind) frames sent on down_conn are always
\* a prefix of the TEXT/BINARY messages received from up_conn: same payload,
\* same kind, same order.
C8_DownloadFramesInOrder ==
    mode = "gateway" => IsPrefix(gw.down_sent, gw.up_received)

\* a BINARY then a TEXT frame with different payloads were relayed
C8_Witness ==
    /\ mode = "gateway" /\ Len(gw.down_sent) = 2
    /\ gw.down_sent[1].type = "BINARY" /\ gw.down_sent[2].type = "TEXT"
    /\ gw.down_sent[1].data # gw.down_sent[2].data

\* C9: gateway relay: the frames sent on up_conn by consume_upstream_buffer
\* are always a prefix of the frames put on upstream_buffer: arrival order,
\* kind preserved, nothing duplicated or merged.
C9_QueueIsFifo ==
    mode = "gateway" => IsPrefix(gw.up_sent, gw.enqueued)

\* a BINARY then a TEXT frame went through the queue to up_conn
C9_Witness ==
    /\ mode = "gateway" /\ Len(gw.up_sent) = 2
    /\ gw.up_sent[1] # gw.up_sent[2]
    /\ gw.up_sent[1].type = "BINARY" /\ gw.up_sent[2].type = "TEXT"

\* C10: local proxy: when opening the upstream WebSocket fails, a 503 block
\* is written to the local socket and the socket is then closed.
C10_ConnectFailureWrites503 ==
    (mode = "local" /\ ~lp.ws_opened /\ lp.run_exc = "Exception" /\ RunOver) =>
        /\ lp.local_written = <<ErrorBlock>>
        /\ lp.writer_closed


\* the response the claim names for a failure class (e: the upstream error)
C11_Expected(class, e) ==
    CASE class = "BackendAPIError" ->
           [status |-> e.status, reason |-> e.reason, body |-> e.data]
      [] class = "BackendClientError" ->
           [status |-> 502, reason |-> "Bad Gateway",
            body |-> "The proxy target server is inaccessible."]
      [] class = "CancelledError" ->
           [status |-> 503, reason |-> "Service Unavailable",
            body |-> "The proxy is being shut down."]
      [] class = "Exception" ->
           [status |-> 500, reason |-> "Internal Server Error",
            body |-> "Something has gone wrong."]

\* C11: in web_handler and websocket_handler a failed upstream open/connect
\* is answered with exactly one response chosen by failure class:
\* BackendAPIError with its own status, reason and body, BackendClientError
\* with 502, cancellation with 503, any other exception with 500; the
\* handler returns it and raises nothing.
C11_OpenFailureResponse ==
    /\ (mode = "gateway" /\ gw.open_failure # "none") =>
          /\ gw.h_pc = "responded"
          /\ gw.resp = C11_Expected(gw.open_failure, gw.open_error)
          /\ gw.responses = 1
    /\ (mode = "web" /\ wh.open_failure # "none") =>
          /\ wh.pc = "responded"
          /\ wh.returned = "error_response"
          /\ wh.resp = C11_Expected(wh.open_failure, wh.open_error)
          /\ wh.responses = 1

\* web_handler passed 404 Not Found / "missing" through
C11_Witness ==
    /\ mode = "web" /\ wh.open_failure = "BackendAPIError"
    /\ wh.resp = [status |-> 404, reason |-> "Not Found", body |-> "missing"]

\* C19: web_handler produces at most one response: once down_resp.prepare
\* has sent status and headers, the handler returns down_resp and never a
\* second, different response, whatever fails while the body is streamed.
C19_OneResponsePerRequest ==
    mode = "web" =>
        /\ wh.responses <= 1
        /\ wh.prepared => wh.returned \in {"none", "down_resp"}


\* the number of 503 blocks in a sequence of writes
RECURSIVE C12_Blocks(_)
C12_Blocks(w) ==
    IF w = <<>> THEN 0
    ELSE (IF Head(w) = ErrorBlock THEN 1 ELSE 0) + C12_Blocks(Tail(w))

\* C12: in local-proxy mode, after an upstream ERROR frame or a CLOSE frame
\* with a code other than OK, exactly one 503 block has been written to the
\* local socket, as its last write, when the socket is closed; after a
\* normal close or a plain end of stream the socket is closed with no 503
\* block written.
C12_ErrorBlockOnAbnormalEnd ==
    (mode = "local" /\ lp.end_kind # "none" /\ lp.writer_closed) =>
        IF NeedsWriteError(lp.end_kind)
        THEN /\ C12_Blocks(lp.local_written) = 1
             /\ lp.local_written[Len(lp.local_written)] = ErrorBlock
        ELSE C12_Blocks(lp.local_written) = 0


\* C16: in every session, gateway WebSocket and local proxy alike, the
\* upstream connection is opened only once the downstream connection has
\* been accepted/prepared, and there is no state in which the downstream is
\* closed while the upstream is still open.
C16_UpstreamInsideDownstream ==
    /\ mode = "gateway" =>
          /\ gw.up_opened => gw.down_prepared
          /\ ~(gw.down_closed /\ gw.up_opened /\ ~gw.up_closed)
    /\ mode = "local" =>
          ~(lp.writer_closed /\ lp.ws_opened /\ ~lp.ws_closed)


\* the connection-level effect of a step: what a close call would change
C17_ConnState(g) ==
    [down_closed |-> g.down_closed, down_close_calls |-> g.down_close_calls,
     down_close_code |-> g.down_close_code,
     up_closed |-> g.up_closed, up_close_calls |-> g.up_close_calls,
     buf_pc |-> g.buf_pc, upstream_buffer |-> g.upstream_buffer]

\* C17 as stated: the closing methods are idempotent, so that each
\* connection is closed (has close() called on it) at most once however the
\* two directions terminate.
C17_EachConnectionClosedOnce ==
    mode = "gateway" => gw.down_close_calls <= 1 /\ gw.up_close_calls <= 1

\* C17: close_downstream on an already closed down_conn, and close_upstream
\* with a finished consumer task and an already closed up_conn, perform no
\* close call and leave the connection state unchanged; close_upstream calls
\* up_conn.close() at most once and close_downstream calls down_conn.close()
\* at most once, every further close call on down_conn being one of
\* downstream()'s except clauses (close(code=...)).
C17_ClosingIsIdempotent ==
    /\ [](mode = "gateway" =>
             /\ gw.up_close_calls <= 1
             /\ gw.down_close_calls - gw.handler_close_calls <= 1)
    /\ [][mode = "gateway" =>
             /\ (gw.px_pc = "close_downstream" /\ gw'.px_pc = "returned"
                   /\ gw.down_closed)
                  => C17_ConnState(gw') = C17_ConnState(gw)
             /\ (gw.ds_pc = "close_upstream" /\ gw'.ds_pc = "close_up_conn"
                   /\ gw.buf_pc # "get")
                  => C17_ConnState(gw') = C17_ConnState(gw)
             /\ (gw.ds_pc = "close_up_conn" /\ gw'.ds_pc \in {"done", "failed"}
                   /\ gw.up_closed)
                  => C17_ConnState(gw') = C17_ConnState(gw)]_vars

\* both directions ended on connections the library had already closed:
\* close_downstream and close_upstream ran and called close() on neither
C17_Witness ==
    /\ mode = "gateway"
    /\ gw.px_pc = "returned" /\ gw.down_closed /\ gw.down_close_calls = 0
    /\ gw.ds_pc = "done" /\ gw.up_closed /\ gw.up_close_calls = 0
    /\ gw.buf_pc = "failed"


\* C18: in gateway WebSocket mode no frame accepted from the downstream
\* client is lost while up_conn is open: the consumer of upstream_buffer is
\* never stopped (cancelled or ended) with frames still queued while up_conn
\* is open.
C18_NoFrameLostWhileUpOpen ==
    mode = "gateway" =>
        ~(/\ gw.buf_pc \in {"done", "failed"}
          /\ gw.upstream_buffer # <<>>
          /\ ~gw.up_closed)


\* C20: once run() has created its kernel and is left, a temporary kernel
\* (no client token given) has had destroy() called exactly once, whether
\* run ended normally, by an early return for its arguments or a failed
\* upload, or by an exception in upload or execution; a kernel attached to
\* through a given client token has never had destroy() called; and
\* destroy() is never called before run() reaches its finally clause.
C20_TemporaryKernelDestroyedOnce ==
    mode = "run" =>
        /\ rc.destroy_calls <= 1
        /\ rc.pc # "exited" => rc.destroy_calls = 0
        /\ (rc.pc = "exited" /\ rc.kernel) =>
              rc.destroy_calls = (IF Truthy(rc.client_token) THEN 0 ELSE 1)

\* a temporary kernel was destroyed once after its upload succeeded and
\* execute raised
C20_Witness ==
    /\ mode = "run" /\ rc.pc = "exited" /\ rc.kernel
    /\ ~Truthy(rc.client_token) /\ rc.caught
    /\ rc.upload_calls = 1 /\ rc.execute_calls > 0
    /\ rc.destroy_calls = 1


\* C13: once ProxyRunner.close() has completed, grace delay included, the
\* listener no longer accepts and every session that was in flight when
\* close() began has its local socket closed and its upstream WebSocket
\* closed.
C13_ShutdownClosesSessions ==
    (mode = "runner" /\ pr.runner_pc = "closed") =>
        /\ ~pr.listening
        /\ \A s \in pr.in_flight :
              /\ pr.writer_closed[pr.sess[s].writer]
              /\ pr.sess[s].ws # 0 => pr.ws_closed[pr.sess[s].ws]

\* what belongs to session s alone: its record, its local connection and
\* its WebSocket
C14_Owned(p, s) ==
    [ sess |-> p.sess[s],
      local_in |-> p.local_in[s], local_out |-> p.local_out[s],
      writer_closed |-> p.writer_closed[s],
      ws_out |-> IF p.sess[s].ws = 0 THEN <<>> ELSE p.ws_out[p.sess[s].ws],
      ws_closed |-> IF p.sess[s].ws = 0 THEN FALSE
                    ELSE p.ws_closed[p.sess[s].ws] ]

\* C14: a failure inside one session ends at that session's boundary:
\* handle_connection ends by returning (after pass or print_error) and the
\* gateway handlers by returning a response, never by raising; the step in
\* which a session fails leaves the listener accepting as before and leaves
\* every other session's state, connection and WebSocket untouched.
C14_FailureStaysInSession ==
    /\ [](/\ mode = "local" =>
               lp.hc_result \in {"none", "returned", "cancelled", "error_printed"}
          /\ mode = "runner" =>
               \A s \in Sessions :
                  pr.sess[s].hc_result \in
                      {"none", "returned", "cancelled", "error_printed"}
          /\ (mode = "web" /\ wh.pc = "responded") => wh.returned # "none"
          /\ (mode = "gateway" /\ gw.h_pc = "responded") => gw.response # "none")
    /\ [][mode = "runner" =>
            \A s \in Sessions :
               (/\ pr.sess[s].hc_result = "none"
                /\ pr'.sess[s].hc_result = "error_printed")
               => /\ pr'.listening = pr.listening
                  /\ \A t \in Sessions \ {s} :
                        C14_Owned(pr', t) = C14_Owned(pr, t)]_vars

\* one session's connect failed and was printed; the listener still accepts
\* and the other session has since relayed a chunk in each direction
C14_Witness ==
    /\ mode = "runner" /\ pr.listening
    /\ \E s, t \in Sessions :
          /\ pr.sess[s].hc_result = "error_printed"
          /\ pr.sess[t].pc = "relay"
          /\ pr.ws_out[pr.sess[t].ws] # <<>>
          /\ pr.local_out[pr.sess[t].writer] # <<>>

\* the elements of a sequence
C15_Range(seq) == {seq[i] : i \in 1..Len(seq)}

\* C15: with several local connections served by one ProxyRunner, every
\* chunk sent on a session's WebSocket was read from that session's local
\* connection, every chunk written to a session's local connection came
\* from that session's WebSocket, and no two sessions share a local
\* connection or a WebSocket.
C15_SessionsAreIsolated ==
    mode = "runner" =>
        /\ \A s \in Sessions :
              /\ pr.sess[s].ws # 0 =>
                    C15_Range(pr.ws_out[pr.sess[s].ws])
                        \subseteq {Chunk("client", pr.sess[s].reader)}
              /\ pr.sess[s].writer # 0 =>
                    C15_Range(pr.local_out[pr.sess[s].writer])
                        \subseteq {Chunk("upstream", pr.sess[s].ws)}
        /\ \A s, t \in Sessions :
              (s # t /\ pr.sess[s].pc # "none" /\ pr.sess[t].pc # "none") =>
                 /\ pr.sess[s].reader # pr.sess[t].reader
                 /\ pr.sess[s].writer # pr.sess[t].writer
                 /\ (pr.sess[s].ws # 0 /\ pr.sess[t].ws # 0) =>
                        pr.sess[s].ws # pr.sess[t].ws

\* two sessions relay at the same time: one has sent a chunk upstream and
\* the other has written one to its local connection
C15_Witness ==
    /\ mode = "runner"
    /\ \E s, t \in Sessions :
          /\ s # t
          /\ pr.sess[s].pc = "relay" /\ pr.sess[t].pc = "relay"
          /\ pr.ws_out[pr.sess[s].ws] # <<>>
          /\ pr.local_out[pr.sess[t].writer] # <<>>

====
